---- MODULE Spec2Model ----
(***************************************************************************)
(* Model of util/metricsutil/common.go: the two metrics registration entry *)
(* points (RegisterMetrics, RegisterMetricsForBR), the keyspace resolver   *)
(* getKeyspaceMeta with its bounded retry, and the common tail            *)
(* registerMetrics (label decision, then the subsystem initializers).     *)
(*                                                                         *)
(* One process issues a bounded sequence of entry-point calls.  Each call  *)
(* is stepped statement by statement through `pc`.                         *)
(***************************************************************************)
EXTENDS Integers, Sequences, FiniteSets, TLC

\* ------------------------------------------------------------------ bounds

\* Number of entry-point calls one process makes in a behaviour.
MaxCalls == 2

\* util.DefaultMaxRetries: the maximum attempt count handed to RunWithRetry.
\* Its value is not fixed by common.go; the model keeps it small.
DefaultMaxRetries == 3

\* ------------------------------------------------------------- value sets

\* Keyspace names: the empty name and one tenant name.
KeyspaceNames == {"", "tenant_7"}

\* cfg.Store values, as character sequences so that strings.ToLower is
\* computed, not assumed.
StoreTikv == <<"t", "i", "k", "v">>
StoreTiKVMixed == <<"T", "i", "K", "V">>
StoreUnistore == <<"u", "n", "i", "s", "t", "o", "r", "e">>
StoreUniStoreMixed == <<"U", "n", "i", "S", "t", "o", "r", "e">>
Stores == {StoreTikv, StoreTiKVMixed, StoreUnistore, StoreUniStoreMixed}

\* cfg.Path values: one that tikvconfig.ParsePath accepts, one it rejects.
GoodPath == "127.0.0.1:2379"
MalformedPath == "127.0.0.1:2379?disableGC=maybe"
Paths == {GoodPath, MalformedPath}

\* Errors.  NoErr is Go's nil error; NotRun marks a call not made yet.
NoErr == "nil"
NotRun == "none"
ErrParsePath == "ErrParsePath"
ErrNewClient == "ErrNewClient"
ErrNotBootstrapped == "NOT_BOOTSTRAPPED"
ErrKeyspaceNotExist == "ENTRY_NOT_FOUND"
ErrTransport == "ErrTransport"
LookupErrors == {NoErr, ErrNotBootstrapped, ErrKeyspaceNotExist, ErrTransport}

\* *keyspacepb.KeyspaceMeta: a nil pointer, or a record with a uint32 Id.
NilMeta == [nil |-> TRUE, Id |-> 0]
Meta(id) == [nil |-> FALSE, Id |-> id]
KeyspaceIds == {0, 5, 42}
Metas == {NilMeta} \cup {Meta(id) : id \in KeyspaceIds}

\* What one pdCli.LoadKeyspace call can hand back: a (meta, err) pair.
LookupOutcomes == [meta : Metas, err : LookupErrors]

\* The keyspace label of the process-wide metrics state: absent, or set to a
\* string (a sequence of characters).
AbsentLabel == [set |-> FALSE, value |-> <<>>]
SetLabel(v) == [set |-> TRUE, value |-> v]

\* ----------------------------------------------------------- pure helpers

\* strings.ToLower on one character (the letters the store names use).
ToLowerChar(c) ==
    CASE c = "T" -> "t"
      [] c = "I" -> "i"
      [] c = "K" -> "k"
      [] c = "V" -> "v"
      [] c = "U" -> "u"
      [] c = "N" -> "n"
      [] c = "S" -> "s"
      [] c = "O" -> "o"
      [] c = "R" -> "r"
      [] c = "E" -> "e"
      [] OTHER -> c

\* strings.ToLower.
ToLower(s) == [i \in 1..Len(s) |-> ToLowerChar(s[i])]

\* keyspace.IsKeyspaceNameEmpty.
IsKeyspaceNameEmpty(keyspaceName) == keyspaceName = ""

\* tikvconfig.ParsePath("tikv://" + path): the error it returns.
ParsePath(path) == IF path = MalformedPath THEN ErrParsePath ELSE NoErr

\* kvstore.IsNotBootstrappedError / kvstore.IsKeyspaceNotExistError.
IsNotBootstrappedError(err) == err # NoErr /\ err = ErrNotBootstrapped
IsKeyspaceNotExistError(err) == err # NoErr /\ err = ErrKeyspaceNotExist

\* One decimal digit as a character.
DigitChar(d) ==
    CASE d = 0 -> "0" [] d = 1 -> "1" [] d = 2 -> "2" [] d = 3 -> "3"
      [] d = 4 -> "4" [] d = 5 -> "5" [] d = 6 -> "6" [] d = 7 -> "7"
      [] d = 8 -> "8" [] d = 9 -> "9"

\* fmt.Sprint of a uint32: its decimal digits, most significant first.
RECURSIVE Sprint(_)
Sprint(n) ==
    IF n < 10 THEN <<DigitChar(n)>>
    ELSE Sprint(n \div 10) \o <<DigitChar(n % 10)>>

\* (*KeyspaceMeta).GetId(): zero on a nil receiver.
GetId(meta) == IF meta.nil THEN 0 ELSE meta.Id

\* -------------------------------------------------- decisions of the code

\* Variant of SkipResolutionA that forgets the store backend test.
SkipResolutionA_NameOnly(c) ==
    IsKeyspaceNameEmpty(c.KeyspaceName)

\* Variant of SkipResolutionA that forgets the empty-name test.
SkipResolutionA_StoreOnly(c) ==
    ToLower(c.Store) # StoreTikv

\* RegisterMetrics, line 49: the condition under which resolution is skipped.
SkipResolutionA(c) ==
    IsKeyspaceNameEmpty(c.KeyspaceName) \/ ToLower(c.Store) # StoreTikv

\* Variant of SkipResolutionB that applies Entry A's store backend test to
\* the global configuration.
SkipResolutionB_WithStore(c, keyspaceName) ==
    IsKeyspaceNameEmpty(keyspaceName) \/ ToLower(c.Store) # StoreTikv

\* RegisterMetricsForBR, line 79: the condition under which resolution is
\* skipped.  The store backend is not consulted.
SkipResolutionB(c, keyspaceName) ==
    IsKeyspaceNameEmpty(keyspaceName)

\* Variant of the closure that retries only the not-bootstrapped failure.
LoadKeyspaceClosure_OnlyNotBootstrapped(out) ==
    [keyspaceMeta |-> out.meta,
     retry |-> IsNotBootstrappedError(out.err),
     err |-> out.err]

\* Variant of the closure that retries every failure.
LoadKeyspaceClosure_RetryAll(out) ==
    [keyspaceMeta |-> out.meta,
     retry |-> out.err # NoErr,
     err |-> out.err]

\* Variant of the closure that declares keyspaceMeta with := and so shadows
\* the captured variable, which stays nil.
LoadKeyspaceClosure_Shadow(out) ==
    [keyspaceMeta |-> NilMeta,
     retry |-> IsNotBootstrappedError(out.err) \/ IsKeyspaceNotExistError(out.err),
     err |-> out.err]

\* The closure handed to util.RunWithRetry (lines 129-138) applied to what
\* pdCli.LoadKeyspace returned: the value it stores in the captured variable
\* keyspaceMeta, and its (retry, error) result.
LoadKeyspaceClosure(out) ==
    [keyspaceMeta |-> out.meta,
     retry |-> IsNotBootstrappedError(out.err) \/ IsKeyspaceNotExistError(out.err),
     err |-> out.err]

\* util.RunWithRetry: what the loop does after attempt number `attempt`
\* returned (retry, err): return err to the caller, or wait and try again.
RunWithRetryNext(attempt, retry, err) ==
    IF err = NoErr \/ ~retry THEN "return"
    ELSE IF attempt < DefaultMaxRetries THEN "sleep"
    ELSE "return"

\* Variant of getKeyspaceMetaReturn that hands back the captured variable
\* together with the error.
getKeyspaceMetaReturn_KeepMeta(meta, err) ==
    [meta |-> meta, err |-> err]

\* getKeyspaceMeta, lines 139-143: its two results.
getKeyspaceMetaReturn(meta, err) ==
    IF err # NoErr THEN [meta |-> NilMeta, err |-> err]
    ELSE [meta |-> meta, err |-> NoErr]

\* Variant of ReturnsErr that lets a keyspace-not-exist error through.
ReturnsErr_IgnoreNotExist(err) == err \notin {NoErr, ErrKeyspaceNotExist}

\* Lines 70-72 and 92-94: `if err != nil { return err }`.
ReturnsErr(err) == err # NoErr

\* Variant of ShouldSetLabel that sets the label for a nil meta too.
ShouldSetLabel_Always(meta) == TRUE

\* registerMetrics, line 100: whether the label is set.
ShouldSetLabel(meta) == ~meta.nil

\* registerMetrics, line 101: the label value.
LabelValue(meta) == Sprint(GetId(meta))

\* registerMetrics, line 120: whether unimetrics.RegisterMetrics runs.
RunsUnimetrics(store) == store = StoreUnistore

StepSetKeyspaceLabels == "metrics.SetKeyspaceLabels"
StepUnimetrics == "unimetrics.RegisterMetrics"

\* The unconditional subsystem initializers, in the order of lines 104-118.
UnconditionalInitializers ==
    <<"metrics.InitMetrics", "metrics.RegisterMetrics",
      "copr.InitMetricsVars", "domain.InitMetricsVars",
      "executor.InitMetricsVars", "infoschema.InitMetricsVars",
      "isolation.InitMetricsVars", "plannercore.InitMetricsVars",
      "server.InitMetricsVars", "session.InitMetricsVars",
      "statshandler.InitMetricsVars", "topsqlreporter.InitMetricsVars",
      "ttlmetrics.InitMetricsVars", "txninfo.InitMetricsVars">>

\* Variant of registerMetricsBody that sets the label after
\* metrics.InitMetrics and metrics.RegisterMetrics have run.
registerMetricsBody_LabelLate ==
    SubSeq(UnconditionalInitializers, 1, 2) \o <<StepSetKeyspaceLabels>>
    \o SubSeq(UnconditionalInitializers, 3, Len(UnconditionalInitializers))
    \o <<StepUnimetrics>>

\* The statements of registerMetrics (lines 100-122), in program order.
registerMetricsBody ==
    <<StepSetKeyspaceLabels>> \o UnconditionalInitializers \o <<StepUnimetrics>>

Range(s) == {s[i] : i \in 1..Len(s)}
Initializers == Range(UnconditionalInitializers) \cup {StepUnimetrics}

\* ------------------------------------------------------------------ state

VARIABLES
    cfg,          \* config.GetGlobalConfig(): KeyspaceName, Store, Path
    label,        \* process-wide keyspace label (metrics const labels)
    calls,        \* entry-point calls started so far
    entry,        \* entry point of the current call: "A", "B" or "none"
    name,         \* keyspace name the current call works with
    pc,           \* position of the current call
    rmIdx,        \* next statement of registerMetricsBody
    parseErr,     \* error of tikvconfig.ParsePath in this call, NotRun before
    newErr,       \* error of pd.NewClient in this call, NotRun before
    pdCli,        \* "none", "open" or "closed"
    deferred,     \* defer pdCli.Close() has been registered
    constructed,  \* clients successfully constructed by this call
    closes,       \* pdCli.Close() calls made by this call
    lookups,      \* pdCli.LoadKeyspace calls made by this call
    waits,        \* inter-attempt waits made by this call
    lastLookup,   \* what the most recent LoadKeyspace call returned
    retryableFails, \* lookups of this call that failed with a retryable condition
    keyspaceMeta, \* the variable captured by the closure (line 128)
    rwErr,        \* error RunWithRetry returns (line 129)
    ret,          \* results of getKeyspaceMeta as seen at lines 69 / 91
    rmArg,        \* argument of registerMetrics
    rmCalled,     \* registerMetrics has been entered by this call
    skipped,      \* the call took the skip branch (line 50 / 80)
    result,       \* NotRun while running, else the returned error (NoErr = nil)
    labelAtStart, \* label when the current call began
    labelSets,    \* metrics.SetKeyspaceLabels calls made by this call
    inits,        \* per initializer: invocations made by this call
    prev          \* summary of an earlier finished call, kept for comparison

vars == <<cfg, label, calls, entry, name, pc, rmIdx, parseErr, newErr, pdCli,
          deferred, constructed, closes, lookups, waits, lastLookup,
          retryableFails, keyspaceMeta, rwErr, ret, rmArg, rmCalled, skipped,
          result, labelAtStart, labelSets, inits, prev>>

\* Variables a call leaves alone unless it says otherwise.
clientVars == <<pdCli, deferred, constructed, closes>>
resolverVars == <<lookups, waits, lastLookup, retryableFails, keyspaceMeta, rwErr>>
metricsVars == <<label, labelSets, inits>>

NoLookup == [meta |-> NilMeta, err |-> NoErr]
NoRet == [meta |-> NilMeta, err |-> NoErr]
Configs == [KeyspaceName : KeyspaceNames, Store : Stores, Path : Paths]

\* No finished call has been recorded.
NoRun ==
    [valid |-> FALSE, call |-> 0, entry |-> "none", name |-> "",
     store |-> StoreTikv, newErr |-> NotRun, lookups |-> 0,
     lastLookup |-> NoLookup, result |-> NotRun, label |-> AbsentLabel,
     inits |-> [i \in Initializers |-> 0]]

\* The two lookup failures the resolver is specified to retry.
RetryableConditions == {ErrNotBootstrapped, ErrKeyspaceNotExist}

Init ==
    /\ cfg \in Configs
    /\ label = AbsentLabel
    /\ calls = 0
    /\ entry = "none"
    /\ name = ""
    /\ pc = "idle"
    /\ rmIdx = 1
    /\ parseErr = NotRun
    /\ newErr = NotRun
    /\ pdCli = "none"
    /\ deferred = FALSE
    /\ constructed = 0
    /\ closes = 0
    /\ lookups = 0
    /\ waits = 0
    /\ lastLookup = NoLookup
    /\ retryableFails = 0
    /\ keyspaceMeta = NilMeta
    /\ rwErr = NoErr
    /\ ret = NoRet
    /\ rmArg = NilMeta
    /\ rmCalled = FALSE
    /\ skipped = FALSE
    /\ result = NotRun
    /\ labelAtStart = AbsentLabel
    /\ labelSets = 0
    /\ inits = [i \in Initializers |-> 0]
    /\ prev = NoRun

\* ---------------------------------------------------------------- actions

\* A new call starts: the locals of the previous call are gone.
BeginCall(e, keyspaceName, skip) ==
    /\ pc \in {"idle", "done"}
    /\ calls < MaxCalls
    /\ calls' = calls + 1
    /\ entry' = e
    /\ name' = keyspaceName
    /\ rmIdx' = 1
    /\ parseErr' = NotRun
    /\ newErr' = NotRun
    /\ pdCli' = "none"
    /\ deferred' = FALSE
    /\ constructed' = 0
    /\ closes' = 0
    /\ lookups' = 0
    /\ waits' = 0
    /\ lastLookup' = NoLookup
    /\ retryableFails' = 0
    /\ keyspaceMeta' = NilMeta
    /\ rwErr' = NoErr
    /\ ret' = NoRet
    /\ rmArg' = NilMeta
    /\ rmCalled' = skip
    /\ skipped' = skip
    /\ result' = NotRun
    /\ labelAtStart' = label
    /\ labelSets' = 0
    /\ inits' = [i \in Initializers |-> 0]
    /\ UNCHANGED <<cfg, prev, label>>

\* RegisterMetrics, lines 47-51: read the global config, and either call
\* registerMetrics(nil) or go on to parse the path.
RegisterMetrics ==
    /\ BeginCall("A", cfg.KeyspaceName, SkipResolutionA(cfg))
    /\ pc' = IF SkipResolutionA(cfg) THEN "registerMetrics" ELSE "parse"

\* RegisterMetricsForBR, lines 78-81: either call registerMetrics(nil) or go
\* on to construct the client from the addresses given.
RegisterMetricsForBR ==
    \E keyspaceName \in KeyspaceNames :
        /\ BeginCall("B", keyspaceName, SkipResolutionB(cfg, keyspaceName))
        /\ pc' = IF SkipResolutionB(cfg, keyspaceName) THEN "registerMetrics"
                 ELSE "newclient"

\* RegisterMetrics, lines 53-56.
ParsePathStep ==
    /\ pc = "parse"
    /\ parseErr' = ParsePath(cfg.Path)
    /\ IF ReturnsErr(ParsePath(cfg.Path))
       THEN /\ result' = ParsePath(cfg.Path)
            /\ pc' = "defers"
       ELSE /\ result' = result
            /\ pc' = "newclient"
    /\ UNCHANGED <<cfg, prev, calls, entry, name, rmIdx, newErr, clientVars,
                   resolverVars, ret, rmArg, rmCalled, skipped, labelAtStart,
                   metricsVars>>

\* Variant of NewClient that calls pdCli.Close() right after construction
\* (the `defer` keyword left out).
NewClient_CloseAtOnce ==
    /\ pc = "newclient"
    /\ \E e \in {NoErr, ErrNewClient} :
        /\ newErr' = e
        /\ IF ReturnsErr(e)
           THEN /\ result' = e
                /\ pc' = "defers"
                /\ UNCHANGED clientVars
           ELSE /\ result' = result
                /\ pc' = "lookup"
                /\ pdCli' = "closed"
                /\ constructed' = constructed + 1
                /\ deferred' = FALSE
                /\ closes' = closes + 1
    /\ UNCHANGED <<cfg, prev, calls, entry, name, rmIdx, parseErr, resolverVars,
                   ret, rmArg, rmCalled, skipped, labelAtStart, metricsVars>>

\* Lines 58-67 and 83-89: pd.NewClient succeeds or fails; on success the
\* close is deferred.
NewClient ==
    /\ pc = "newclient"
    /\ \E e \in {NoErr, ErrNewClient} :
        /\ newErr' = e
        /\ IF ReturnsErr(e)
           THEN /\ result' = e
                /\ pc' = "defers"
                /\ UNCHANGED clientVars
           ELSE /\ result' = result
                /\ pc' = "lookup"
                /\ pdCli' = "open"
                /\ constructed' = constructed + 1
                /\ deferred' = TRUE
                /\ closes' = closes
    /\ UNCHANGED <<cfg, prev, calls, entry, name, rmIdx, parseErr, resolverVars, ret,
                   rmArg, rmCalled, skipped, labelAtStart, metricsVars>>

\* One iteration of util.RunWithRetry inside getKeyspaceMeta (lines 129-138):
\* the closure calls pdCli.LoadKeyspace, and the loop returns or goes to wait.
Lookup ==
    /\ pc = "lookup"
    /\ \E out \in LookupOutcomes :
        LET f == LoadKeyspaceClosure(out) IN
        /\ lookups' = lookups + 1
        /\ lastLookup' = out
        /\ retryableFails' = retryableFails + (IF out.err \in RetryableConditions THEN 1 ELSE 0)
        /\ keyspaceMeta' = f.keyspaceMeta
        /\ rwErr' = f.err
        /\ pc' = IF RunWithRetryNext(lookups + 1, f.retry, f.err) = "sleep"
                 THEN "sleep" ELSE "getKeyspaceMetaRet"
    /\ UNCHANGED <<cfg, prev, calls, entry, name, rmIdx, parseErr, newErr, clientVars,
                   waits, ret, rmArg, rmCalled, skipped, result, labelAtStart,
                   metricsVars>>

\* util.RunWithRetry: the wait between two attempts.
Sleep ==
    /\ pc = "sleep"
    /\ waits' = waits + 1
    /\ pc' = "lookup"
    /\ UNCHANGED <<cfg, prev, calls, entry, name, rmIdx, parseErr, newErr, clientVars,
                   lookups, lastLookup, retryableFails, keyspaceMeta, rwErr, ret,
                   rmArg, rmCalled, skipped, result, labelAtStart, metricsVars>>

\* Variant of GetKeyspaceMetaRet that runs the retry loop again for as long
\* as it ended on a retryable failure.
GetKeyspaceMetaRet_RetryForever ==
    /\ pc = "getKeyspaceMetaRet"
    /\ IF rwErr \in {ErrNotBootstrapped, ErrKeyspaceNotExist}
       THEN /\ pc' = "lookup"
            /\ ret' = ret
       ELSE /\ pc' = "checkerr"
            /\ ret' = getKeyspaceMetaReturn(keyspaceMeta, rwErr)
    /\ UNCHANGED <<cfg, prev, calls, entry, name, rmIdx, parseErr, newErr,
                   clientVars, resolverVars, rmArg, rmCalled, skipped, result,
                   labelAtStart, metricsVars>>

\* Variant of GetKeyspaceMetaRet that waits once more before it hands back a
\* failure.
GetKeyspaceMetaRet_WaitAfterLast ==
    /\ pc = "getKeyspaceMetaRet"
    /\ ret' = getKeyspaceMetaReturn(keyspaceMeta, rwErr)
    /\ waits' = IF rwErr # NoErr THEN waits + 1 ELSE waits
    /\ pc' = "checkerr"
    /\ UNCHANGED <<cfg, prev, calls, entry, name, rmIdx, parseErr, newErr,
                   clientVars, lookups, lastLookup, retryableFails,
                   keyspaceMeta, rwErr, rmArg, rmCalled, skipped, result,
                   labelAtStart, metricsVars>>

\* getKeyspaceMeta returns (lines 139-143) into lines 69 / 91.
GetKeyspaceMetaRet ==
    /\ pc = "getKeyspaceMetaRet"
    /\ ret' = getKeyspaceMetaReturn(keyspaceMeta, rwErr)
    /\ pc' = "checkerr"
    /\ UNCHANGED <<cfg, prev, calls, entry, name, rmIdx, parseErr, newErr, clientVars,
                   resolverVars, rmArg, rmCalled, skipped, result, labelAtStart,
                   metricsVars>>

\* Lines 70-74 and 92-96: return the resolver's error, or call
\* registerMetrics(keyspaceMeta).
CheckErr ==
    /\ pc = "checkerr"
    /\ IF ReturnsErr(ret.err)
       THEN /\ result' = ret.err
            /\ pc' = "defers"
            /\ UNCHANGED <<rmArg, rmCalled>>
       ELSE /\ result' = result
            /\ pc' = "registerMetrics"
            /\ rmArg' = ret.meta
            /\ rmCalled' = TRUE
    /\ UNCHANGED <<cfg, prev, calls, entry, name, rmIdx, parseErr, newErr, clientVars,
                   resolverVars, ret, skipped, labelAtStart, metricsVars>>

\* After statement rmIdx of registerMetrics: the next statement, or
\* `return nil` (line 123).
AdvanceRegisterMetrics ==
    /\ rmIdx' = rmIdx + 1
    /\ IF rmIdx = Len(registerMetricsBody)
       THEN /\ result' = NoErr
            /\ pc' = "defers"
       ELSE /\ result' = result
            /\ pc' = pc

\* Variant of RegisterMetricsLabel that appends the ID to the label already
\* there instead of replacing it.
RegisterMetricsLabel_Append ==
    /\ pc = "registerMetrics"
    /\ rmIdx <= Len(registerMetricsBody)
    /\ registerMetricsBody[rmIdx] = StepSetKeyspaceLabels
    /\ IF ShouldSetLabel(rmArg)
       THEN /\ label' = SetLabel(label.value \o LabelValue(rmArg))
            /\ labelSets' = labelSets + 1
       ELSE UNCHANGED <<label, labelSets>>
    /\ AdvanceRegisterMetrics
    /\ UNCHANGED <<cfg, prev, calls, entry, name, parseErr, newErr, clientVars,
                   resolverVars, ret, rmArg, rmCalled, skipped, labelAtStart,
                   inits>>

\* Variant of RegisterMetricsLabel with an else branch that clears the label
\* when no meta is given.
RegisterMetricsLabel_ResetOnNil ==
    /\ pc = "registerMetrics"
    /\ rmIdx <= Len(registerMetricsBody)
    /\ registerMetricsBody[rmIdx] = StepSetKeyspaceLabels
    /\ IF ShouldSetLabel(rmArg)
       THEN /\ label' = SetLabel(LabelValue(rmArg))
            /\ labelSets' = labelSets + 1
       ELSE /\ label' = AbsentLabel
            /\ labelSets' = labelSets
    /\ AdvanceRegisterMetrics
    /\ UNCHANGED <<cfg, prev, calls, entry, name, parseErr, newErr, clientVars,
                   resolverVars, ret, rmArg, rmCalled, skipped, labelAtStart,
                   inits>>

\* registerMetrics, lines 100-102: the label decision.
RegisterMetricsLabel ==
    /\ pc = "registerMetrics"
    /\ rmIdx <= Len(registerMetricsBody)
    /\ registerMetricsBody[rmIdx] = StepSetKeyspaceLabels
    /\ IF ShouldSetLabel(rmArg)
       THEN /\ label' = SetLabel(LabelValue(rmArg))
            /\ labelSets' = labelSets + 1
       ELSE UNCHANGED <<label, labelSets>>
    /\ AdvanceRegisterMetrics
    /\ UNCHANGED <<cfg, prev, calls, entry, name, parseErr, newErr, clientVars,
                   resolverVars, ret, rmArg, rmCalled, skipped, labelAtStart,
                   inits>>

\* registerMetrics, lines 104-118: one unconditional initializer.
RegisterMetricsInit ==
    /\ pc = "registerMetrics"
    /\ rmIdx <= Len(registerMetricsBody)
    /\ registerMetricsBody[rmIdx] \in Range(UnconditionalInitializers)
    /\ inits' = [inits EXCEPT ![registerMetricsBody[rmIdx]] = @ + 1]
    /\ AdvanceRegisterMetrics
    /\ UNCHANGED <<cfg, prev, calls, entry, name, parseErr, newErr, clientVars,
                   resolverVars, ret, rmArg, rmCalled, skipped, labelAtStart,
                   label, labelSets>>

\* registerMetrics, lines 120-122: the backend-specific initializer.
RegisterMetricsUnimetrics ==
    /\ pc = "registerMetrics"
    /\ rmIdx <= Len(registerMetricsBody)
    /\ registerMetricsBody[rmIdx] = StepUnimetrics
    /\ IF RunsUnimetrics(cfg.Store)
       THEN inits' = [inits EXCEPT ![StepUnimetrics] = @ + 1]
       ELSE inits' = inits
    /\ AdvanceRegisterMetrics
    /\ UNCHANGED <<cfg, prev, calls, entry, name, parseErr, newErr, clientVars,
                   resolverVars, ret, rmArg, rmCalled, skipped, labelAtStart,
                   label, labelSets>>

\* Variant of RunDefers in which the client is closed only on the success
\* path (an explicit Close before `return registerMetrics(...)`, no defer).
RunDefers_CloseOnSuccessOnly ==
    /\ pc = "defers"
    /\ IF deferred /\ result = NoErr
       THEN /\ pdCli' = "closed"
            /\ closes' = closes + 1
       ELSE UNCHANGED <<pdCli, closes>>
    /\ pc' = "done"
    /\ UNCHANGED <<cfg, prev, calls, entry, name, rmIdx, parseErr, newErr, deferred,
                   constructed, resolverVars, ret, rmArg, rmCalled, skipped,
                   result, labelAtStart, metricsVars>>

\* The entry point returns: the deferred pdCli.Close() (lines 67 / 89) runs,
\* then the caller has the result.
RunDefers ==
    /\ pc = "defers"
    /\ IF deferred
       THEN /\ pdCli' = "closed"
            /\ closes' = closes + 1
       ELSE UNCHANGED <<pdCli, closes>>
    /\ pc' = "done"
    /\ UNCHANGED <<cfg, prev, calls, entry, name, rmIdx, parseErr, newErr, deferred,
                   constructed, resolverVars, ret, rmArg, rmCalled, skipped,
                   result, labelAtStart, metricsVars>>

\* What a finished call was given (entry, name, global store, what the
\* metadata service answered) and what it produced (result, label, the
\* initializers it invoked).
RunSummary ==
    [valid |-> TRUE, call |-> calls, entry |-> entry, name |-> name,
     store |-> cfg.Store, newErr |-> newErr, lookups |-> lookups,
     lastLookup |-> lastLookup, result |-> result, label |-> label,
     inits |-> inits]

\* The caller notes the outcome of the call that has just returned.
RecordRun ==
    /\ pc = "done"
    /\ prev # RunSummary
    /\ prev' = RunSummary
    /\ UNCHANGED <<cfg, calls, entry, name, pc, rmIdx, parseErr, newErr,
                   clientVars, resolverVars, ret, rmArg, rmCalled, skipped,
                   result, labelAtStart, metricsVars>>

\* config.StoreGlobalConfig between two calls: the global store kind changes.
StoreGlobalConfig ==
    /\ pc \in {"idle", "done"}
    /\ \E store \in Stores \ {cfg.Store} :
           cfg' = [cfg EXCEPT !.Store = store]
    /\ UNCHANGED <<prev, calls, entry, name, pc, rmIdx, parseErr, newErr,
                   clientVars, resolverVars, ret, rmArg, rmCalled, skipped,
                   result, labelAtStart, metricsVars>>

Next ==
    \/ RegisterMetrics
    \/ RegisterMetricsForBR
    \/ ParsePathStep
    \/ NewClient
    \/ Lookup
    \/ Sleep
    \/ GetKeyspaceMetaRet
    \/ CheckErr
    \/ RegisterMetricsLabel
    \/ RegisterMetricsInit
    \/ RegisterMetricsUnimetrics
    \/ RunDefers

Spec == Init /\ [][Next]_vars

\* The steps inside an entry-point call.  The call runs on one goroutine with
\* no blocking other than the lookups and the fixed waits, so a call that has
\* started keeps taking its next step.
CallStep ==
    \/ ParsePathStep
    \/ NewClient
    \/ Lookup
    \/ Sleep
    \/ GetKeyspaceMetaRet
    \/ CheckErr
    \/ RegisterMetricsLabel
    \/ RegisterMetricsInit
    \/ RegisterMetricsUnimetrics
    \/ RunDefers

LiveSpec == Spec /\ WF_vars(CallStep)

\* A process that only calls RegisterMetricsForBR, may change the global
\* store kind between calls, and records each finished call.
InitBR ==
    /\ Init
    /\ cfg.KeyspaceName = ""
    /\ cfg.Path = GoodPath

NextBR ==
    \/ RegisterMetricsForBR
    \/ NewClient
    \/ Lookup
    \/ Sleep
    \/ GetKeyspaceMetaRet
    \/ CheckErr
    \/ RegisterMetricsLabel
    \/ RegisterMetricsInit
    \/ RegisterMetricsUnimetrics
    \/ RunDefers
    \/ RecordRun
    \/ StoreGlobalConfig

SpecBR == InitBR /\ [][NextBR]_vars

TypeOK ==
    /\ cfg \in Configs
    /\ label.set \in BOOLEAN
    /\ calls \in 0..MaxCalls
    /\ entry \in {"none", "A", "B"}
    /\ name \in KeyspaceNames
    /\ pdCli \in {"none", "open", "closed"}
    /\ lastLookup \in LookupOutcomes
    /\ ret \in LookupOutcomes
    /\ rmArg \in Metas
    /\ result \in {NotRun, NoErr, ErrParsePath, ErrNewClient} \cup LookupErrors
    /\ retryableFails \in 0..lookups

\* ----------------------------------------------------- notions for claims

\* getKeyspaceMeta has been run by the current call and has returned.
ResolverReturned ==
    lookups > 0 /\ pc \in {"checkerr", "registerMetrics", "defers", "done"}

\* The current call has executed its return statement.
Returning == pc \in {"defers", "done"}

\* Some subsystem initializer has been invoked by the current call.
AnyInitializerRan == \E i \in Initializers : inits[i] > 0

\* The process-wide metrics state is as the current call found it.
MetricsUntouched ==
    /\ label = labelAtStart
    /\ labelSets = 0
    /\ ~AnyInitializerRan
    /\ ~rmCalled

\* Spellings of the distributed-cluster store kind, written out.
TikvSpellings == {StoreTikv, StoreTiKVMixed}

\* Value of one decimal digit character (written out, not derived from
\* DigitChar).
DigitValue(c) ==
    CASE c = "0" -> 0 [] c = "1" -> 1 [] c = "2" -> 2 [] c = "3" -> 3
      [] c = "4" -> 4 [] c = "5" -> 5 [] c = "6" -> 6 [] c = "7" -> 7
      [] c = "8" -> 8 [] c = "9" -> 9

\* The number a decimal string denotes.
RECURSIVE DecimalValue(_)
DecimalValue(str) ==
    IF str = <<>> THEN 0
    ELSE 10 * DecimalValue(SubSeq(str, 1, Len(str) - 1)) + DigitValue(str[Len(str)])

\* A decimal string as a number is printed: non-empty, digits only, no
\* leading zero unless it is "0".
IsDecimalString(str) ==
    /\ Len(str) >= 1
    /\ \A i \in 1..Len(str) : str[i] \in {"0", "1", "2", "3", "4", "5", "6", "7", "8", "9"}
    /\ (Len(str) > 1 => str[1] # "0")

\* ------------------------------------------------------------------ claims

\* C1: every fatal condition of an entry point (ParsePath error, NewClient
\* error, or a resolver whose last lookup failed) makes the call return that
\* very error, with the label as the call found it, no SetKeyspaceLabels call
\* and no subsystem initializer invoked by the call.
C1_FatalAbortsUntouched ==
    LET fatal == IF parseErr \notin {NotRun, NoErr} THEN parseErr
                 ELSE IF newErr \notin {NotRun, NoErr} THEN newErr
                 ELSE IF lookups > 0 /\ lastLookup.err # NoErr THEN lastLookup.err
                 ELSE NoErr
    IN (Returning /\ fatal # NoErr) => (result = fatal /\ MetricsUntouched)

\* C1 witness: a call returned a non-retryable transport error of its first
\* lookup (end-to-end scenario 4).
C1_Witness ==
    /\ pc = "done"
    /\ lookups = 1
    /\ lastLookup.err = ErrTransport
    /\ result = ErrTransport
    /\ MetricsUntouched

\* C2: a successfully constructed client stays open while the call runs and
\* has been closed exactly once when the call has returned, on every exit
\* path; a call that constructed no client never closes one.
C2_ClosedExactlyOnce ==
    /\ constructed <= 1
    /\ closes <= constructed
    /\ (constructed = 1 /\ pc # "done") => (closes = 0 /\ pdCli = "open")
    /\ (constructed = 1 /\ pc = "done") => (closes = 1 /\ pdCli = "closed")
    /\ constructed = 0 => (closes = 0 /\ pdCli = "none")

\* C2 witness: a call that exhausted its retries has returned the error with
\* its client closed once.
C2_Witness ==
    /\ pc = "done"
    /\ lookups = DefaultMaxRetries
    /\ retryableFails = DefaultMaxRetries
    /\ result \in RetryableConditions
    /\ closes = 1

\* C3: when every lookup of a resolver run failed with a retryable condition,
\* the resolver has made exactly DefaultMaxRetries lookups when it returns, and
\* it returns Failed; no run ever makes more lookups than that.
C3_ExhaustsExactlyMaxAttempts ==
    /\ lookups <= DefaultMaxRetries
    /\ (ResolverReturned /\ retryableFails = lookups) =>
           /\ lookups = DefaultMaxRetries
           /\ ret.err \in RetryableConditions
           /\ pc # "registerMetrics"

\* C3 witness: the resolver has just returned after DefaultMaxRetries
\* retryable failures.
C3_Witness ==
    /\ pc = "checkerr"
    /\ lookups = DefaultMaxRetries
    /\ retryableFails = DefaultMaxRetries
    /\ ret.err # NoErr

\* C4: once a lookup has failed with a condition that is not one of the two
\* retryable ones, the resolver neither waits nor looks up again (so a first
\* lookup failing this way is the only one), and it returns Failed.
C4_FatalLookupStopsAtOnce ==
    (lookups > 0 /\ lastLookup.err \notin (RetryableConditions \cup {NoErr})) =>
        /\ pc \notin {"lookup", "sleep"}
        /\ waits = lookups - 1
        /\ retryableFails = lookups - 1
        /\ (ResolverReturned => ret.err = lastLookup.err)

\* C4 witness: the first lookup failed with a transport error and the retry
\* loop has returned without waiting.
C4_Witness ==
    /\ pc = "getKeyspaceMetaRet"
    /\ lookups = 1
    /\ waits = 0
    /\ lastLookup.err = ErrTransport

\* C5: when a lookup succeeds after k retryable failures (k below
\* DefaultMaxRetries), it is lookup number k+1, no further lookup or wait
\* follows, and the resolver returns that lookup's KeyspaceMeta with no error.
C5_SuccessAfterRetries ==
    (lookups > 0 /\ lastLookup.err = NoErr) =>
        /\ lookups = retryableFails + 1
        /\ retryableFails < DefaultMaxRetries
        /\ waits = retryableFails
        /\ pc \notin {"lookup", "sleep"}
        /\ (ResolverReturned => ret = [meta |-> lastLookup.meta, err |-> NoErr])

\* C5 witness: two retryable failures, then a lookup returning ID 5; the
\* resolver has returned it (end-to-end scenario 3).
C5_Witness ==
    /\ pc = "checkerr"
    /\ retryableFails = 2
    /\ lookups = 3
    /\ lastLookup = [meta |-> Meta(5), err |-> NoErr]
    /\ ret.meta = Meta(5)

\* C6: in a call whose resolution outcome is Resolved(meta), by the time any
\* subsystem initializer has been invoked (and when the call returns) the
\* label has been set, once, to the decimal string of the meta's ID.
C6_LabelBeforeInitializers ==
    (/\ ResolverReturned
     /\ lastLookup.err = NoErr
     /\ ~lastLookup.meta.nil
     /\ (AnyInitializerRan \/ Returning)) =>
        /\ label.set
        /\ labelSets = 1
        /\ IsDecimalString(label.value)
        /\ DecimalValue(label.value) = lastLookup.meta.Id

\* C6 witness: Entry A resolved "tenant_7" to ID 42 on the first try; the
\* label is "42" and exactly the first initializer has run (scenario 2).
C6_Witness ==
    /\ entry = "A"
    /\ name = "tenant_7"
    /\ lookups = 1
    /\ lastLookup = [meta |-> Meta(42), err |-> NoErr]
    /\ label = SetLabel(<<"4", "2">>)
    /\ inits["metrics.InitMetrics"] = 1
    /\ inits["metrics.RegisterMetrics"] = 0

\* C7: in RegisterMetrics, when the configured keyspace name is empty or the
\* store is not "tikv" in any letter case, nothing is parsed, no client is
\* constructed, no lookup is made, and registerMetrics is called with nil.
C7_EntryASkipsResolution ==
    (entry = "A" /\ (cfg.KeyspaceName = "" \/ cfg.Store \notin TikvSpellings)) =>
        /\ skipped
        /\ parseErr = NotRun
        /\ newErr = NotRun
        /\ constructed = 0
        /\ pdCli = "none"
        /\ lookups = 0
        /\ rmCalled
        /\ rmArg = NilMeta
        /\ labelSets = 0

\* C7 witness: Entry A with a tenant name on a unistore backend has returned
\* success without resolving.
C7_Witness ==
    /\ entry = "A"
    /\ cfg.KeyspaceName = "tenant_7"
    /\ cfg.Store = StoreUnistore
    /\ pc = "done"
    /\ result = NoErr
    /\ lookups = 0

\* C8 as stated: Entry B skips resolution exactly when Entry A would, that
\* is when the name is empty or the store is not "tikv" in any letter case.
C8_EntryBSkipsLikeA ==
    entry = "B" =>
        (skipped <=> (name = "" \/ cfg.Store \notin TikvSpellings))

\* C8 as amended: Entry A skips resolution exactly when the name is empty or
\* the store is not "tikv" in any letter case; Entry B skips exactly when the
\* name is empty, whatever the store, and otherwise goes on to construct a
\* client; a skipping call of either entry constructs no client and makes no
\* lookup.
C8_EntryBSkipsOnNameOnly ==
    /\ entry = "A" => (skipped <=> (name = "" \/ cfg.Store \notin TikvSpellings))
    /\ entry = "B" => (skipped <=> name = "")
    /\ (entry = "B" /\ ~skipped) => (pc = "newclient" \/ newErr # NotRun)
    /\ (entry # "none" /\ skipped) => (newErr = NotRun /\ constructed = 0 /\ lookups = 0)

\* C8 witness: Entry B with a tenant name under a unistore global store has
\* constructed a client and made a lookup.
C8_Witness ==
    /\ entry = "B"
    /\ name = "tenant_7"
    /\ cfg.Store = StoreUnistore
    /\ constructed = 1
    /\ lookups >= 1

\* C9: a call with an empty keyspace name returns success, makes no
\* SetKeyspaceLabels call and leaves the label as it found it (absent when no
\* earlier call set it), and has invoked every unconditional initializer
\* exactly once.
C9_EmptyNameRegistersUnlabelled ==
    (pc = "done" /\ name = "") =>
        /\ result = NoErr
        /\ labelSets = 0
        /\ label = labelAtStart
        /\ (calls = 1 => label = AbsentLabel)
        /\ \A i \in Range(UnconditionalInitializers) : inits[i] = 1

\* C9 witness: the first call of the process, Entry B with an empty name, has
\* returned success (end-to-end scenario 1).
C9_Witness ==
    /\ pc = "done"
    /\ calls = 1
    /\ entry = "B"
    /\ name = ""
    /\ result = NoErr
    /\ ~label.set
    /\ inits["txninfo.InitMetricsVars"] = 1

\* C10: when the resolver returns an error, it is the error of the last
\* lookup made, and the KeyspaceMeta returned with it is nil; and a resolver
\* whose last lookup failed returns an error.
C10_FailedCarriesLastError ==
    /\ (ResolverReturned /\ ret.err # NoErr) =>
           (ret.err = lastLookup.err /\ ret.meta = NilMeta)
    /\ (ResolverReturned /\ lastLookup.err # NoErr) => ret.err = lastLookup.err

\* C10 witness: the last of DefaultMaxRetries lookups handed back a meta
\* together with a keyspace-not-exist error; the resolver returned that error
\* and a nil meta.
C10_Witness ==
    /\ pc = "checkerr"
    /\ lookups = DefaultMaxRetries
    /\ lastLookup = [meta |-> Meta(42), err |-> ErrKeyspaceNotExist]
    /\ ret = [meta |-> NilMeta, err |-> ErrKeyspaceNotExist]

\* The initializers a call has invoked, given its invocation counts.
Invoked(counts) == {i \in Initializers : counts[i] > 0}

\* The current call is a finished RegisterMetricsForBR call, and `prev`
\* records an earlier finished RegisterMetricsForBR call that had the same
\* keyspace name and saw the same metadata-service behaviour (client
\* construction, number of lookups, final lookup result; every lookup before
\* the final one failed retryably in both).
TwoLikeBRRuns ==
    /\ pc = "done"
    /\ entry = "B"
    /\ prev.valid
    /\ prev.entry = "B"
    /\ prev.call < calls
    /\ prev.name = name
    /\ prev.newErr = newErr
    /\ prev.lookups = lookups
    /\ prev.lastLookup = lastLookup

\* C11 as stated: two RegisterMetricsForBR runs with the same arguments and
\* the same metadata-service behaviour give the same result, the same label
\* and the same set of invoked initializers, whatever the global store kind.
C11_BRIndependentOfGlobalConfig ==
    TwoLikeBRRuns =>
        /\ result = prev.result
        /\ label = prev.label
        /\ Invoked(inits) = Invoked(prev.inits)

\* Spellings of the local/in-memory store kind, written out.
UnistoreSpellings == {StoreUnistore, StoreUniStoreMixed}

\* C12 as stated: a call that ran the common tail to its end has invoked
\* unimetrics.RegisterMetrics (once) exactly when the configured store is
\* "unistore" in any letter case, and that initializer runs only after every
\* unconditional initializer has run.
C12_UnimetricsIffLocalStoreAnyCase ==
    /\ (Returning /\ result = NoErr) =>
           inits[StepUnimetrics] = (IF cfg.Store \in UnistoreSpellings THEN 1 ELSE 0)
    /\ inits[StepUnimetrics] > 0 =>
           \A i \in Range(UnconditionalInitializers) : inits[i] = 1

\* C13: when registerMetrics has made its label decision for Resolved(meta)
\* in a process whose label was already the one an earlier registerMetrics
\* produced for the same meta ID, the label after the second decision equals
\* the label after the first.
C13_LabelDecisionIdempotent ==
    (/\ rmCalled
     /\ ~rmArg.nil
     /\ labelSets = 1
     /\ labelAtStart.set
     /\ IsDecimalString(labelAtStart.value)
     /\ DecimalValue(labelAtStart.value) = rmArg.Id) =>
        label = labelAtStart

\* C13 witness: the second call of the process resolved ID 5 as the first
\* had, and has made its label decision; the label is still "5".
C13_Witness ==
    /\ calls = 2
    /\ rmArg = Meta(5)
    /\ labelSets = 1
    /\ labelAtStart = SetLabel(<<"5">>)
    /\ label = SetLabel(<<"5">>)

\* C14: no call ever makes more than DefaultMaxRetries lookups, and every
\* call that has started eventually returns, with success or with an error.
C14_ResolverTerminates ==
    /\ [](lookups <= DefaultMaxRetries)
    /\ ((entry # "none" /\ pc # "done") ~> (pc = "done" /\ result # NotRun))

\* C14 witness: a call whose every lookup failed retryably has returned the
\* error after DefaultMaxRetries lookups.
C14_Witness ==
    /\ pc = "done"
    /\ lookups = DefaultMaxRetries
    /\ waits = DefaultMaxRetries - 1
    /\ lastLookup.err = ErrNotBootstrapped
    /\ result = ErrNotBootstrapped

\* C15: every step that makes a lookup starts and ends with the call's one
\* successfully constructed client open, and no call constructs a second
\* client.
C15_LookupsOnOpenClient ==
    [][/\ (lookups' > lookups) =>
              (pdCli = "open" /\ pdCli' = "open" /\ constructed = 1 /\ closes = 0)
       /\ constructed' <= 1]_vars

\* C15 witness: a second lookup has been made and the client is still open.
C15_Witness ==
    /\ pc = "getKeyspaceMetaRet"
    /\ lookups = 2
    /\ constructed = 1
    /\ pdCli = "open"

\* C16: across the calls of a process, a call that skipped resolution
\* (NoKeyspace) has the label exactly as it found it; a set label is never
\* unset; and the label changes only in the label decision of a call whose
\* resolver got a KeyspaceMeta from a successful lookup.
C16_LabelChangesOnlyOnResolved ==
    [][/\ skipped => label = labelAtStart
       /\ label.set => label'.set
       /\ (label' # label) =>
              /\ pc = "registerMetrics"
              /\ ~skipped
              /\ lookups > 0
              /\ lastLookup.err = NoErr
              /\ ~lastLookup.meta.nil]_vars

\* C16 witness: the second call of the process skipped resolution and has
\* returned; the label an earlier call set is still there.
C16_Witness ==
    /\ calls = 2
    /\ skipped
    /\ pc = "done"
    /\ result = NoErr
    /\ label.set
    /\ label = labelAtStart

C18_ResolverNeverGetsEmptyName ==
    (\/ pc \in {"parse", "newclient", "lookup", "sleep", "getKeyspaceMetaRet",
                "checkerr"}
     \/ parseErr # NotRun
     \/ newErr # NotRun
     \/ constructed > 0
     \/ lookups > 0) =>
        /\ name # ""
        /\ ~skipped
        /\ (entry = "A" => name = cfg.KeyspaceName)

\* C18 witness: RegisterMetrics has run the resolver's first lookup for
\* "tenant_7".
C18_Witness ==
    /\ entry = "A"
    /\ name = "tenant_7"
    /\ lookups = 1
    /\ pc = "getKeyspaceMetaRet"

\* C19 as stated: a call that attempted resolution and returned success has
\* set the label, also when the final lookup gave no error and a nil meta.
C19_SuccessAfterLookupIsLabelled ==
    (pc = "done" /\ ~skipped /\ lookups > 0 /\ result = NoErr) =>
        (labelSets = 1 /\ label.set)

====
